---- MODULE Spec2Model ----
(***************************************************************************)
(* Three-dice game: the derivation engine (src/lib) over the event store   *)
(* (src/db).  Rolls, turns and rounds are stored rows; scores, categories, *)
(* safety, round status, penalty and loser are recomputed on every read.   *)
(*                                                                         *)
(* Ten specifications share this module:                                  *)
(*   SpecDice    the pure dice functions applied to one dice array         *)
(*   SpecOrder   createPlayerOrder applied to one argument list            *)
(*   Spec        the event store of one game session with its write path   *)
(*               (createRound, createPlayerTurn, createRoll) and the       *)
(*               reducers evaluated over what the read queries return      *)
(*   SpecSession the session rows with their updates, the rounds created   *)
(*               in them and the service calls, some to missing targets    *)
(*   SpecStats   one session played turn by turn, read by                  *)
(*               getParticipantStats                                       *)
(*   SpecGlobal  two sessions of the same players, read by                 *)
(*               getPlayerGlobalStats                                      *)
(*   SpecShuffle shuffleArray applied to one array                         *)
(*   SpecRolls   one round whose turns take any number of rolls            *)
(*   SpecPlayers the players and the participants of one session, read by  *)
(*               getParticipantsWithPlayers                                *)
(*   SpecRace    createRound called by concurrent callers, each call a     *)
(*               read of the session, a read of the maximum round number   *)
(*               and an insert                                             *)
(***************************************************************************)
EXTENDS Integers, Sequences, FiniteSets, TLC

VARIABLES
    dice,               \* SpecDice: the caller's dice array (face values)
    score,              \* SpecDice: result of calculateScore, Null before the call
    specialRollType,    \* SpecDice: result of detectSpecialRoll, "unset" before the call
    startingParticipantId,  \* SpecOrder: first argument of createPlayerOrder
    allParticipantIds,      \* SpecOrder: second argument, the caller's list
    shuffleOrder,           \* SpecOrder: third argument
    playerOrder,            \* SpecOrder: returned array, << >> before the call
    orderCalled,            \* SpecOrder: TRUE once createPlayerOrder has returned
    rounds,             \* Spec: rows of roundsTable, index = id
    playerTurns,        \* Spec: rows of playerTurnsTable, index = id
    rolls,              \* Spec: rows of rollsTable, index = id
    clock,              \* Spec: the database clock read by defaultNow()
    sessions,           \* SpecSession, SpecStats: rows of gameSessionsTable, index = id
    participants,       \* SpecStats: rows of gameParticipantsTable, index = id
    lastCall,           \* SpecSession: the last service call and what it reported
    players,            \* SpecPlayers: rows of playersTable, index = id
    pending             \* SpecRace: the createRound calls in flight, per caller

diceVars  == <<dice, score, specialRollType>>
orderVars == <<startingParticipantId, allParticipantIds, shuffleOrder, playerOrder, orderCalled>>
storeVars == <<rounds, playerTurns, rolls, clock>>
sessionVars == <<sessions, participants, lastCall>>
otherVars == <<players, pending>>
vars == <<dice, score, specialRollType,
          startingParticipantId, allParticipantIds, shuffleOrder, playerOrder, orderCalled,
          rounds, playerTurns, rolls, clock,
          sessions, participants, lastCall,
          players, pending>>

-----------------------------------------------------------------------------
(* Bounds *)

NumParticipants == 2    \* participant ids 1..NumParticipants in the session
MaxRounds == 1          \* rows of roundsTable
MaxTurns == 2           \* rows of playerTurnsTable
MaxRolls == 2           \* rows of rollsTable
MaxTurnOrder == 2       \* turnOrder values 1..MaxTurnOrder offered to createPlayerTurn
MaxRollNumber == 2      \* rollNumber values 1..MaxRollNumber offered to createRoll
MaxListLen == 3         \* SpecOrder: longest allParticipantIds
MaxId == 3              \* SpecOrder: participant ids 1..MaxId
MaxSessions == 1        \* SpecSession: rows of gameSessionsTable
MaxSessionRounds == 2   \* SpecSession: rows of roundsTable
MaxClock == 3           \* SpecSession: completeGameSession is offered while clock < MaxClock
MaxTurnsPerRound == 2   \* SpecStats, SpecGlobal: turns recorded in one round
MaxRollRows == 4        \* SpecRolls: rows of rollsTable
NumCallers == 2         \* SpecRace: concurrent callers of createRound
MaxRaceRounds == 3      \* SpecRace: createRound calls started
MaxPlayers == 2         \* SpecPlayers: rows of playersTable
MaxParticipantRows == 3 \* SpecPlayers: rows of gameParticipantsTable

-----------------------------------------------------------------------------
(* Values *)

Null == -1              \* JS null / undefined for number-valued fields
Faces == 1..6
POSITIVE_INFINITY == 1000000

Participants == 1..NumParticipants

\* every array of three faces in 1..6
AllDice == [1..3 -> Faces]

-----------------------------------------------------------------------------
(* Generic array helpers *)

Range(s) == {s[i] : i \in DOMAIN s}

RECURSIVE SumSeq(_)
SumSeq(s) == IF s = << >> THEN 0 ELSE Head(s) + SumSeq(Tail(s))

\* Array.prototype.filter with predicate  x # v
RECURSIVE FilterNe(_, _)
FilterNe(s, v) ==
    IF s = << >> THEN << >>
    ELSE IF Head(s) # v THEN <<Head(s)>> \o FilterNe(Tail(s), v)
         ELSE FilterNe(Tail(s), v)

\* insert v into the ascending array s
RECURSIVE InsertAsc(_, _)
InsertAsc(s, v) ==
    IF s = << >> THEN <<v>>
    ELSE IF v < Head(s) THEN <<v>> \o s
         ELSE <<Head(s)>> \o InsertAsc(Tail(s), v)

\* Array.prototype.sort((a, b) => a - b)
RECURSIVE SortAsc(_)
SortAsc(s) == IF s = << >> THEN << >> ELSE InsertAsc(SortAsc(Tail(s)), Head(s))

\* all arrangements of the elements of a finite set
Arrangements(S) ==
    {f \in [1..Cardinality(S) -> S] : \A i, j \in 1..Cardinality(S) : i # j => f[i] # f[j]}

\* all reorderings of an array
Reorderings(s) == {[i \in DOMAIN s |-> s[p[i]]] : p \in Arrangements(DOMAIN s)}

-----------------------------------------------------------------------------
(* game-utils.ts: scoring and classification *)

\* the point table with the six worth its face value
DICE_POINTS_SixIsSix == [f \in Faces |-> CASE f = 1 -> 100
                                           [] OTHER -> f]

\* Point values for each dice face
DICE_POINTS == [f \in Faces |-> CASE f = 1 -> 100
                                  [] f = 2 -> 2
                                  [] f = 3 -> 3
                                  [] f = 4 -> 4
                                  [] f = 5 -> 5
                                  [] f = 6 -> 60]

calculateScore(d) == SumSeq([i \in DOMAIN d |-> DICE_POINTS[d[i]]])

\* detectSpecialRoll with the sort left out
detectSpecialRollUnsorted(d) ==
    LET values == d
    IN  IF values[1] = values[2] /\ values[2] = values[3] THEN "three_of_a_kind"
        ELSE IF values[1] = 1 /\ values[2] = 2 /\ values[3] = 3 THEN "stairs"
        ELSE IF values[1] = 4 /\ values[2] = 5 /\ values[3] = 6 THEN "super_stairs"
        ELSE IF \/ (values[1] = 2 /\ values[2] = 3 /\ values[3] = 4)
                \/ (values[1] = 3 /\ values[2] = 4 /\ values[3] = 5) THEN "shit_stairs"
        ELSE "none"

\* detectSpecialRoll recognising only [2,3,4] as shit stairs
detectSpecialRollOneShitStairs(d) ==
    LET values == SortAsc(d)
    IN  IF values[1] = values[2] /\ values[2] = values[3] THEN "three_of_a_kind"
        ELSE IF values[1] = 1 /\ values[2] = 2 /\ values[3] = 3 THEN "stairs"
        ELSE IF values[1] = 4 /\ values[2] = 5 /\ values[3] = 6 THEN "super_stairs"
        ELSE IF values[1] = 2 /\ values[2] = 3 /\ values[3] = 4 THEN "shit_stairs"
        ELSE "none"

\* detectSpecialRoll(dice): values is the sorted copy of the face values
detectSpecialRoll(d) ==
    LET values == SortAsc(d)
    IN  IF values[1] = values[2] /\ values[2] = values[3] THEN "three_of_a_kind"
        ELSE IF values[1] = 1 /\ values[2] = 2 /\ values[3] = 3 THEN "stairs"
        ELSE IF values[1] = 4 /\ values[2] = 5 /\ values[3] = 6 THEN "super_stairs"
        ELSE IF \/ (values[1] = 2 /\ values[2] = 3 /\ values[3] = 4)
                \/ (values[1] = 3 /\ values[2] = 4 /\ values[3] = 5) THEN "shit_stairs"
        ELSE "none"

\* isSafeRoll that only excludes "none"
isSafeRollAnySpecial(t) == t # "none"

isSafeRoll(t) == t # "none" /\ t # "shit_stairs"

\* getThreeOfAKindSips without the case for three ones
getThreeOfAKindSipsFaceValue(diceValue) == diceValue

getThreeOfAKindSips(diceValue) == IF diceValue = 1 THEN 7 ELSE diceValue

-----------------------------------------------------------------------------
(* SpecDice: calculateScore and detectSpecialRoll applied to one dice array *)

OrderIdle ==
    /\ startingParticipantId = 1
    /\ allParticipantIds = << >>
    /\ shuffleOrder = FALSE
    /\ playerOrder = << >>
    /\ orderCalled = FALSE

StoreIdle ==
    /\ rounds = << >>
    /\ playerTurns = << >>
    /\ rolls = << >>
    /\ clock = 1

\* lastCall before any service call
NoCall ==
    [op |-> "none", id |-> 0, result |-> "none", option |-> "undefined",
     shuffleOrder |-> FALSE]

SessionIdle ==
    /\ sessions = << >>
    /\ participants = << >>
    /\ lastCall = NoCall

\* the callers of createRound and a caller with no call in flight
Callers == 1..NumCallers

NoPending ==
    [pc |-> "idle", gameSessionId |-> 0, startingParticipantId |-> 0,
     allParticipantIds |-> << >>, shuffleOrder |-> FALSE, latestRoundNumber |-> 0]

OtherIdle ==
    /\ players = << >>
    /\ pending = [c \in Callers |-> NoPending]

DiceIdle ==
    /\ dice = <<1, 1, 1>>
    /\ score = Null
    /\ specialRollType = "unset"

InitDice ==
    /\ dice \in AllDice
    /\ score = Null
    /\ specialRollType = "unset"
    /\ OrderIdle
    /\ StoreIdle
    /\ SessionIdle
    /\ OtherIdle

\* calculateScore(dice): reduce reads the array and returns the sum
CalculateScoreCall ==
    /\ score = Null
    /\ score' = calculateScore(dice)
    /\ UNCHANGED <<dice, specialRollType>>
    /\ UNCHANGED orderVars
    /\ UNCHANGED otherVars
    /\ UNCHANGED storeVars
    /\ UNCHANGED sessionVars

\* detectSpecialRoll(dice): map() copies the values, sort() orders the copy
DetectSpecialRollCall ==
    /\ specialRollType = "unset"
    /\ specialRollType' = detectSpecialRoll(dice)
    /\ UNCHANGED <<dice, score>>
    /\ UNCHANGED orderVars
    /\ UNCHANGED otherVars
    /\ UNCHANGED storeVars
    /\ UNCHANGED sessionVars

NextDice == CalculateScoreCall \/ DetectSpecialRollCall

SpecDice == InitDice /\ [][NextDice]_vars

\* number of dice of the array showing face f
FaceCount(d, f) == Cardinality({i \in DOMAIN d : d[i] = f})

\* C6: for every dice set of three faces in 1..6, calculateScore returns the
\* sum of the per-face values 1->100, 2->2, 3->3, 4->4, 5->5, 6->60; in
\* particular [1,2,4] -> 106, [2,3,5] -> 10 and [6,6,6] -> 180.
C6_ScoreIsSumOfFaceValues ==
    /\ score # Null =>
          score = 100 * FaceCount(dice, 1) + 2 * FaceCount(dice, 2)
                  + 3 * FaceCount(dice, 3) + 4 * FaceCount(dice, 4)
                  + 5 * FaceCount(dice, 5) + 60 * FaceCount(dice, 6)
    /\ (score # Null /\ dice = <<1, 2, 4>>) => score = 106
    /\ (score # Null /\ dice = <<2, 3, 5>>) => score = 10
    /\ (score # Null /\ dice = <<6, 6, 6>>) => score = 180

C6_Witness == dice = <<6, 1, 4>> /\ score = 164

\* C7: for every dice set of three faces in 1..6, detectSpecialRoll returns
\* three_of_a_kind iff all faces are equal, stairs iff the faces are {1,2,3},
\* super_stairs iff they are {4,5,6}, shit_stairs iff they are {2,3,4} or
\* {3,4,5}, and none otherwise; exactly one category applies.
C7_CategoryByFaceSet ==
    specialRollType # "unset" =>
        LET S == Range(dice)
        IN  /\ specialRollType \in
                  {"three_of_a_kind", "stairs", "super_stairs", "shit_stairs", "none"}
            /\ (specialRollType = "three_of_a_kind") <=> (Cardinality(S) = 1)
            /\ (specialRollType = "stairs") <=> (S = {1, 2, 3})
            /\ (specialRollType = "super_stairs") <=> (S = {4, 5, 6})
            /\ (specialRollType = "shit_stairs") <=> (S = {2, 3, 4} \/ S = {3, 4, 5})
            /\ (specialRollType = "none") <=>
                  /\ Cardinality(S) # 1
                  /\ S \notin {{1, 2, 3}, {4, 5, 6}, {2, 3, 4}, {3, 4, 5}}

C7_Witness == dice = <<5, 3, 4>> /\ specialRollType = "shit_stairs"

\* C8: detectSpecialRoll and calculateScore give the same result for every
\* permutation of the same three die values, and a call leaves the input
\* dice array's order unchanged.
C8_PermutationInvariant ==
    [][ /\ dice' = dice
        /\ specialRollType' # "unset" =>
              \A p \in Reorderings(dice) : detectSpecialRoll(p) = specialRollType'
        /\ score' # Null =>
              \A p \in Reorderings(dice) : calculateScore(p) = score'
      ]_vars

C8_Witness == dice = <<3, 1, 2>> /\ specialRollType = "stairs" /\ score = 105

-----------------------------------------------------------------------------
(* game-utils.ts: turn order *)

\* the swap that writes a[i] only
SwapOverwrite(a, i, j) == [a EXCEPT ![i] = a[j]]

\* [a[i], a[j]] = [a[j], a[i]]
Swap(a, i, j) == [a EXCEPT ![i] = a[j], ![j] = a[i]]

\* the swap loop of shuffleArray from index i down (arrays are 1-based here):
\* every array the loop can leave, j being any index up to i
RECURSIVE shuffleLoop(_, _)
shuffleLoop(shuffled, i) ==
    IF i > 1
    THEN UNION {shuffleLoop(Swap(shuffled, i, j), i - 1) : j \in 1..i}
    ELSE {shuffled}

\* shuffleArray(array): the possible results; the loop works on a copy
shuffleArray(array) == shuffleLoop(array, Len(array))

\* createPlayerOrder that forgets to filter the starting participant out
createPlayerOrderNoFilter(startingId, allIds, shuffle) ==
    LET remaining == allIds
        orderedRemaining == IF shuffle THEN shuffleArray(remaining) ELSE {remaining}
    IN  {<<startingId>> \o r : r \in orderedRemaining}

\* createPlayerOrder(startingParticipantId, allParticipantIds, shuffleOrder):
\* the set of arrays it can return (one array when shuffleOrder is false)
createPlayerOrder(startingId, allIds, shuffle) ==
    LET remaining == FilterNe(allIds, startingId)
        orderedRemaining == IF shuffle THEN shuffleArray(remaining) ELSE {remaining}
    IN  {<<startingId>> \o r : r \in orderedRemaining}

-----------------------------------------------------------------------------
(* SpecOrder: createPlayerOrder applied to one argument list *)

Ids == 1..MaxId

IdLists == UNION {[1..n -> Ids] : n \in 0..MaxListLen}

InitOrder ==
    /\ startingParticipantId \in Ids
    /\ allParticipantIds \in IdLists
    /\ shuffleOrder \in BOOLEAN
    /\ playerOrder = << >>
    /\ orderCalled = FALSE
    /\ DiceIdle
    /\ StoreIdle
    /\ SessionIdle
    /\ OtherIdle

CreatePlayerOrderCall ==
    /\ ~orderCalled
    /\ playerOrder' \in createPlayerOrder(startingParticipantId, allParticipantIds, shuffleOrder)
    /\ orderCalled' = TRUE
    /\ UNCHANGED <<startingParticipantId, allParticipantIds, shuffleOrder>>
    /\ UNCHANGED diceVars
    /\ UNCHANGED otherVars
    /\ UNCHANGED storeVars
    /\ UNCHANGED sessionVars

NextOrder == CreatePlayerOrderCall

SpecOrder == InitOrder /\ [][NextOrder]_vars

\* number of occurrences of v in the array s
Occurrences(s, v) == Cardinality({i \in DOMAIN s : s[i] = v})

\* a is a permutation of b: each value occurs equally often in both
IsPermutationOf(a, b) ==
    /\ Len(a) = Len(b)
    /\ \A v \in Range(a) \cup Range(b) : Occurrences(a, v) = Occurrences(b, v)

\* C9: createPlayerOrder returns, for any starting participant and
\* participant list and for both shuffle settings, a permutation of
\* allParticipants whose element at position 0 is the starting participant.
C9_OrderIsPermutationStartingFirst ==
    orderCalled =>
        /\ playerOrder[1] = startingParticipantId
        /\ IsPermutationOf(playerOrder, allParticipantIds)

\* C10: with shuffle disabled, createPlayerOrder returns the starting
\* participant followed by all other participants in their original relative
\* input order (createPlayerOrder(5, [1,2,3,5], false) = [5,1,2,3]) and does
\* not modify the input list.
C10_UnshuffledKeepsInputOrder ==
    [][ /\ allParticipantIds' = allParticipantIds
        /\ (orderCalled' /\ ~shuffleOrder) =>
              /\ playerOrder'[1] = startingParticipantId
              /\ Tail(playerOrder') =
                    SelectSeq(allParticipantIds, LAMBDA id : id # startingParticipantId)
        /\ createPlayerOrder(5, <<1, 2, 3, 5>>, FALSE) = {<<5, 1, 2, 3>>}
      ]_vars

C10_Witness ==
    /\ orderCalled
    /\ ~shuffleOrder
    /\ startingParticipantId = 3
    /\ allParticipantIds = <<1, 2, 3>>
    /\ playerOrder = <<3, 1, 2>>

-----------------------------------------------------------------------------
(* db/queries: the read queries over the stored rows *)

\* the orders in which ORDER BY key can return the rows with ids in S:
\* ascending by key, rows with equal keys in any order
OrderedBy(S, key) ==
    {ids \in Arrangements(S) :
        \A i, j \in 1..Cardinality(S) : i < j => key[ids[i]] <= key[ids[j]]}

TurnIdsOfRound(roundId) == {i \in DOMAIN playerTurns : playerTurns[i].roundId = roundId}

RollIdsOfTurn(turnId) == {i \in DOMAIN rolls : rolls[i].playerTurnId = turnId}

\* getPlayerTurnsByRound(roundId): the arrays the query can return
getPlayerTurnsByRound(roundId) ==
    {[k \in DOMAIN ids |-> playerTurns[ids[k]]] :
        ids \in OrderedBy(TurnIdsOfRound(roundId),
                         [i \in TurnIdsOfRound(roundId) |-> playerTurns[i].turnOrder])}

\* getRollsByPlayerTurn(playerTurnId): the arrays the query can return
getRollsByPlayerTurn(turnId) ==
    {[k \in DOMAIN ids |-> rolls[ids[k]]] :
        ids \in OrderedBy(RollIdsOfTurn(turnId),
                         [i \in RollIdsOfTurn(turnId) |-> rolls[i].rollNumber])}

\* getLatestRound / getMaxRoundNumber: highest round number of the session, 0 if none
getMaxRoundNumber ==
    IF rounds = << >> THEN 0
    ELSE CHOOSE n \in {rounds[i].roundNumber : i \in DOMAIN rounds} :
            \A i \in DOMAIN rounds : rounds[i].roundNumber <= n

-----------------------------------------------------------------------------
(* game-utils.ts and mappers.ts: the reducers *)

\* isRoundCompleteFromData comparing with >=
isRoundCompleteFromDataAtLeast(order, turnCount) == turnCount >= Len(order)

isRoundCompleteFromData(order, turnCount) == turnCount = Len(order)

\* getMaxRollsFromFirstTurn without the  || 3
getMaxRollsFromFirstTurnNoDefault(firstTurnRolls) == Len(firstTurnRolls)

getMaxRollsFromFirstTurn(firstTurnRolls) ==
    IF Len(firstTurnRolls) # 0 THEN Len(firstTurnRolls) ELSE 3

getStartingParticipant(order) == order[1]

mapRoll(roll) ==
    [id |-> roll.id, playerTurnId |-> roll.playerTurnId, rollNumber |-> roll.rollNumber,
     dice |-> roll.dice, rolledAt |-> roll.rolledAt,
     score |-> calculateScore(roll.dice),
     specialRollType |-> detectSpecialRoll(roll.dice)]

\* mapPlayerTurn(turn, rolls); now is what new Date() returns during the call
mapPlayerTurn(turn, turnRolls, now) ==
    LET rollModels == [k \in DOMAIN turnRolls |-> mapRoll(turnRolls[k])]
        hasLast == Len(rollModels) > 0
        lastRoll == rollModels[Len(rollModels)]
        type == IF hasLast THEN lastRoll.specialRollType ELSE "none"
        safe == isSafeRoll(type)
    IN  [id |-> turn.id, roundId |-> turn.roundId,
         participantId |-> turn.participantId, turnOrder |-> turn.turnOrder,
         rolls |-> rollModels,
         totalRollsUsed |-> Len(rollModels),
         finalScore |-> IF safe THEN Null ELSE (IF hasLast THEN lastRoll.score ELSE 0),
         isSafe |-> safe,
         specialRollType |-> type,
         completedAt |-> IF hasLast THEN lastRoll.rolledAt ELSE now]

\* the loop of calculatePenaltyFromTurns over the remaining turns
RECURSIVE penaltyLoop(_, _)
penaltyLoop(penaltySips, turns) ==
    IF turns = << >> THEN penaltySips
    ELSE LET turn == Head(turns)
         IN  IF turn.specialRollType = "three_of_a_kind"
             THEN LET lastRoll == turn.rolls[Len(turn.rolls)]
                      diceValue == lastRoll.dice[1]
                  IN  penaltyLoop(penaltySips + getThreeOfAKindSips(diceValue), Tail(turns))
             ELSE penaltyLoop(penaltySips, Tail(turns))

calculatePenaltyFromTurns(turns) == penaltyLoop(1, turns)

\* the reduce of findLoserFromTurns with  currentScore <= lowestScore
RECURSIVE reduceLowestLastWins(_, _)
reduceLowestLastWins(lowest, rest) ==
    IF rest = << >> THEN lowest
    ELSE LET current == Head(rest)
             lowestScore == IF lowest.finalScore = Null
                            THEN POSITIVE_INFINITY ELSE lowest.finalScore
             currentScore == IF current.finalScore = Null
                             THEN POSITIVE_INFINITY ELSE current.finalScore
         IN  reduceLowestLastWins(IF currentScore <= lowestScore THEN current ELSE lowest,
                                  Tail(rest))

\* the reduce of findLoserFromTurns: lowest is the accumulator, rest the
\* elements still to visit
RECURSIVE reduceLowest(_, _)
reduceLowest(lowest, rest) ==
    IF rest = << >> THEN lowest
    ELSE LET current == Head(rest)
             lowestScore == IF lowest.finalScore = Null
                            THEN POSITIVE_INFINITY ELSE lowest.finalScore
             currentScore == IF current.finalScore = Null
                             THEN POSITIVE_INFINITY ELSE current.finalScore
         IN  reduceLowest(IF currentScore < lowestScore THEN current ELSE lowest,
                          Tail(rest))

findLoserFromTurns(turns) ==
    LET unsafeTurns == SelectSeq(turns, LAMBDA t : ~t.isSafe)
    IN  IF Len(unsafeTurns) = 0 THEN Null
        ELSE reduceLowest(Head(unsafeTurns), Tail(unsafeTurns)).participantId

\* rollsByTurnId.get(turn.id) || []
RollsOf(rollsByTurnId, turnId) ==
    IF turnId \in DOMAIN rollsByTurnId THEN rollsByTurnId[turnId] ELSE << >>

\* mapRound taking completedAt from the first turn
mapRoundFirstTurnCompletedAt(round, turns, rollsByTurnId, now) ==
    LET turnModels == [k \in DOMAIN turns |->
                          mapPlayerTurn(turns[k], RollsOf(rollsByTurnId, turns[k].id), now)]
        isComplete == isRoundCompleteFromData(round.playerOrder, Len(turns))
        currentPenaltySips == calculatePenaltyFromTurns(turnModels)
    IN  [id |-> round.id, roundNumber |-> round.roundNumber,
         playerOrder |-> round.playerOrder, startedAt |-> round.startedAt,
         turns |-> turnModels,
         status |-> IF isComplete THEN "completed" ELSE "in_progress",
         startingParticipantId |-> getStartingParticipant(round.playerOrder),
         maxRollsAllowed |-> IF Len(turnModels) > 0
                             THEN getMaxRollsFromFirstTurn(turnModels[1].rolls) ELSE 3,
         currentPenaltySips |-> currentPenaltySips,
         finalPenaltySips |-> IF isComplete THEN currentPenaltySips ELSE Null,
         losingParticipantId |-> IF isComplete THEN findLoserFromTurns(turnModels) ELSE Null,
         completedAt |-> IF isComplete /\ Len(turnModels) > 0
                         THEN turnModels[1].completedAt ELSE Null]

mapRound(round, turns, rollsByTurnId, now) ==
    LET turnModels == [k \in DOMAIN turns |->
                          mapPlayerTurn(turns[k], RollsOf(rollsByTurnId, turns[k].id), now)]
        isComplete == isRoundCompleteFromData(round.playerOrder, Len(turns))
        currentPenaltySips == calculatePenaltyFromTurns(turnModels)
    IN  [id |-> round.id, roundNumber |-> round.roundNumber,
         playerOrder |-> round.playerOrder, startedAt |-> round.startedAt,
         turns |-> turnModels,
         status |-> IF isComplete THEN "completed" ELSE "in_progress",
         startingParticipantId |-> getStartingParticipant(round.playerOrder),
         maxRollsAllowed |-> IF Len(turnModels) > 0
                             THEN getMaxRollsFromFirstTurn(turnModels[1].rolls) ELSE 3,
         currentPenaltySips |-> currentPenaltySips,
         finalPenaltySips |-> IF isComplete THEN currentPenaltySips ELSE Null,
         losingParticipantId |-> IF isComplete THEN findLoserFromTurns(turnModels) ELSE Null,
         completedAt |-> IF isComplete /\ Len(turnModels) > 0
                         THEN turnModels[Len(turnModels)].completedAt ELSE Null]

-----------------------------------------------------------------------------
(* game-service.ts: reading a round *)

\* the rollsByTurnId maps the service can build for the turns of a round:
\* one query result per turn id
RollsByTurnIdMaps(roundId) ==
    LET turnIds == TurnIdsOfRound(roundId)
    IN  {m \in [turnIds -> UNION {getRollsByPlayerTurn(t) : t \in turnIds}] :
            \A t \in turnIds : m[t] \in getRollsByPlayerTurn(t)}

\* the round models a read of the round (getLatestRound, getCompleteGame,
\* getParticipantStats) can compute in the current state
RoundModels(roundId) ==
    {mapRound(rounds[roundId], q[1], q[2], clock) :
        q \in getPlayerTurnsByRound(roundId) \X RollsByTurnIdMaps(roundId)}

AllRoundModels == UNION {RoundModels(r) : r \in DOMAIN rounds}

-----------------------------------------------------------------------------
(* Spec: the event store of one game session *)

\* the dice arrays offered to createRoll: one or more of every category,
\* two unsafe arrays of equal score (9) and two arrangements of a straight
DiceSamples ==
    {<<1, 1, 1>>, <<3, 3, 3>>, <<6, 6, 6>>, <<3, 1, 2>>, <<6, 4, 5>>,
     <<2, 3, 4>>, <<2, 2, 5>>, <<1, 3, 5>>}

\* the participant lists offered to createRound: the session's participants,
\* or some of them, in any order
ParticipantLists ==
    UNION {Arrangements(S) : S \in (SUBSET Participants) \ {{}}}

Init ==
    /\ rounds = << >>
    /\ playerTurns = << >>
    /\ rolls = << >>
    /\ clock = 1
    /\ DiceIdle
    /\ OrderIdle
    /\ SessionIdle
    /\ OtherIdle

\* game-service createRound(gameSessionId, startingParticipantId,
\* allParticipantIds, options) on the existing session; shuffle is
\* options.shuffleOrder ?? session.config.randomTurnOrder
CreateRound(startingId, allIds, shuffle) ==
    /\ Len(rounds) < MaxRounds
    /\ \E order \in createPlayerOrder(startingId, allIds, shuffle) :
          rounds' = Append(rounds,
                           [id |-> Len(rounds) + 1,
                            roundNumber |-> getMaxRoundNumber + 1,
                            playerOrder |-> order,
                            startedAt |-> clock])
    /\ clock' = clock + 1
    /\ UNCHANGED <<playerTurns, rolls>>
    /\ UNCHANGED diceVars
    /\ UNCHANGED otherVars
    /\ UNCHANGED orderVars
    /\ UNCHANGED sessionVars

\* game-service createPlayerTurn(gameSessionId, roundId, participantId,
\* turnOrder): a plain insert; the foreign keys require the round and the
\* participant to exist
CreatePlayerTurn(roundId, participantId, turnOrder) ==
    /\ Len(playerTurns) < MaxTurns
    /\ roundId \in DOMAIN rounds
    /\ playerTurns' = Append(playerTurns,
                             [id |-> Len(playerTurns) + 1,
                              roundId |-> roundId,
                              participantId |-> participantId,
                              turnOrder |-> turnOrder])
    /\ UNCHANGED <<rounds, rolls, clock>>
    /\ UNCHANGED diceVars
    /\ UNCHANGED otherVars
    /\ UNCHANGED orderVars
    /\ UNCHANGED sessionVars

\* createRoll(data): a plain insert; the foreign key requires the turn to exist
CreateRoll(playerTurnId, rollNumber, d) ==
    /\ Len(rolls) < MaxRolls
    /\ playerTurnId \in DOMAIN playerTurns
    /\ rolls' = Append(rolls,
                       [id |-> Len(rolls) + 1,
                        playerTurnId |-> playerTurnId,
                        rollNumber |-> rollNumber,
                        dice |-> d,
                        rolledAt |-> clock])
    /\ clock' = clock + 1
    /\ UNCHANGED <<rounds, playerTurns>>
    /\ UNCHANGED diceVars
    /\ UNCHANGED otherVars
    /\ UNCHANGED orderVars
    /\ UNCHANGED sessionVars

Next ==
    \/ \E startingId \in Participants, allIds \in ParticipantLists, shuffle \in BOOLEAN :
          CreateRound(startingId, allIds, shuffle)
    \/ \E roundId \in 1..MaxRounds, participantId \in Participants,
          turnOrder \in 1..MaxTurnOrder :
          CreatePlayerTurn(roundId, participantId, turnOrder)
    \/ \E playerTurnId \in 1..MaxTurns, rollNumber \in 1..MaxRollNumber, d \in DiceSamples :
          CreateRoll(playerTurnId, rollNumber, d)

Spec == Init /\ [][Next]_vars

-----------------------------------------------------------------------------
(* Properties of the derived round *)

\* positions of the unsafe turns of a round model
UnsafePositions(m) == {k \in DOMAIN m.turns : ~m.turns[k].isSafe}

\* positions of the unsafe turns holding the minimum finalScore
MinScorePositions(m) ==
    {k \in UnsafePositions(m) :
        \A j \in UnsafePositions(m) : m.turns[k].finalScore <= m.turns[j].finalScore}

\* C1: for a completed round, losingParticipantId is the participant of the
\* unsafe turn with the minimum finalScore; when several unsafe turns share
\* that minimum it is the one earliest in the turn sequence (lowest
\* turnOrder); when no turn is unsafe it is null.
C1_LoserIsEarliestMinimumUnsafe ==
    \A m \in AllRoundModels :
        m.status = "completed" =>
            IF UnsafePositions(m) = {}
            THEN m.losingParticipantId = Null
            ELSE \E k \in MinScorePositions(m) :
                    /\ \A j \in MinScorePositions(m) :
                          /\ k <= j
                          /\ m.turns[k].turnOrder <= m.turns[j].turnOrder
                    /\ m.losingParticipantId = m.turns[k].participantId

\* a completed round whose two unsafe turns, of different participants,
\* share the minimum score, and the earlier one loses
C1_Witness ==
    \E m \in AllRoundModels :
        /\ m.status = "completed"
        /\ Cardinality(MinScorePositions(m)) = 2
        /\ \E k, j \in MinScorePositions(m) :
              /\ k < j
              /\ m.turns[k].finalScore = 9
              /\ m.turns[k].participantId # m.turns[j].participantId
              /\ m.losingParticipantId = m.turns[k].participantId

\* C2: a turn whose last roll is [4,5,6] is treated as super_stairs (hence
\* safe) only if the turn with turnOrder exactly one less in the same round
\* ended in stairs [1,2,3]; a [4,5,6] turn that is first in the round or
\* follows any other category is not super_stairs in the derived turn.
C2_SuperStairsOnlyAfterStairs ==
    \A m \in AllRoundModels :
        \A k \in DOMAIN m.turns :
            m.turns[k].specialRollType = "super_stairs" =>
                \E j \in DOMAIN m.turns :
                    /\ m.turns[j].turnOrder = m.turns[k].turnOrder - 1
                    /\ m.turns[j].specialRollType = "stairs"

\* C3: for a round whose playerOrder has length n, the derived status is
\* in_progress for every recorded turn count less than n and completed
\* exactly when the turn count equals n.
C3_StatusByTurnCount ==
    \A r \in DOMAIN rounds :
        \A m \in RoundModels(r) :
            LET n == Len(rounds[r].playerOrder)
                turnCount == Cardinality(TurnIdsOfRound(r))
            IN  /\ m.status \in {"in_progress", "completed"}
                /\ turnCount < n => m.status = "in_progress"
                /\ (m.status = "completed") <=> (turnCount = n)

\* a round holding more turns than its playerOrder has entries
C3_Witness ==
    \E r \in DOMAIN rounds :
        /\ Cardinality(TurnIdsOfRound(r)) > Len(rounds[r].playerOrder)
        /\ \E m \in RoundModels(r) : m.status = "in_progress"

\* the penalty bonus of a three of a kind of the given face, as the rules state it
ThreeOfAKindBonus(face) ==
    CASE face = 1 -> 7
      [] face = 6 -> 6
      [] OTHER -> face

\* the bonus a derived turn adds to the round penalty
TurnBonus(t) ==
    IF t.specialRollType = "three_of_a_kind"
    THEN ThreeOfAKindBonus(t.rolls[Len(t.rolls)].dice[3])
    ELSE 0

\* C4: for every sequence of turns in a round (complete or not),
\* currentPenaltySips equals 1 plus, for each turn whose final category is
\* three_of_a_kind, a bonus of 7 for face 1, 6 for face 6 and n for face n in
\* 2..5; a round with no three_of_a_kind turn has penalty exactly 1.
C4_PenaltyIsOnePlusBonuses ==
    \A m \in AllRoundModels :
        /\ m.currentPenaltySips = 1 + SumSeq([k \in DOMAIN m.turns |-> TurnBonus(m.turns[k])])
        /\ (\A k \in DOMAIN m.turns : m.turns[k].specialRollType # "three_of_a_kind")
              => m.currentPenaltySips = 1

\* two three-of-a-kind turns, on faces 1 and 6, in a round still in progress
C4_Witness ==
    \E m \in AllRoundModels :
        /\ m.status = "in_progress"
        /\ m.currentPenaltySips = 14
        /\ \E k, j \in DOMAIN m.turns :
              /\ m.turns[k].rolls[Len(m.turns[k].rolls)].dice = <<1, 1, 1>>
              /\ m.turns[j].rolls[Len(m.turns[j].rolls)].dice = <<6, 6, 6>>

\* C5: a derived turn is safe iff the category of its last roll is
\* three_of_a_kind, stairs or super_stairs; turns ending in shit_stairs or
\* none (including a turn with zero rolls) are unsafe; an unsafe turn's
\* finalScore equals the point total of its last roll and a safe turn's
\* finalScore is null.
C5_SafeByLastRollCategory ==
    \A m \in AllRoundModels :
        \A k \in DOMAIN m.turns :
            LET t == m.turns[k]
                hasRolls == Len(t.rolls) > 0
                lastDice == t.rolls[Len(t.rolls)].dice
                category == IF hasRolls THEN detectSpecialRoll(lastDice) ELSE "none"
            IN  /\ t.isSafe <=> category \in {"three_of_a_kind", "stairs", "super_stairs"}
                /\ category \in {"shit_stairs", "none"} => ~t.isSafe
                /\ ~hasRolls => ~t.isSafe
                /\ (~t.isSafe /\ hasRolls) => t.finalScore = calculateScore(lastDice)
                /\ t.isSafe => t.finalScore = Null

\* a turn whose first roll was stairs and whose last roll is shit_stairs is
\* unsafe with that roll's 9 points, next to a turn without rolls
C5_Witness ==
    \E m \in AllRoundModels :
        \E k, j \in DOMAIN m.turns :
            /\ Len(m.turns[k].rolls) = 2
            /\ m.turns[k].rolls[1].specialRollType = "stairs"
            /\ m.turns[k].specialRollType = "shit_stairs"
            /\ ~m.turns[k].isSafe
            /\ m.turns[k].finalScore = 9
            /\ Len(m.turns[j].rolls) = 0
            /\ ~m.turns[j].isSafe

-----------------------------------------------------------------------------
(* db/queries/sessions: the session rows and their updates *)

Undefined == -2         \* a date-valued field the caller left out

DEFAULT_GAME_CONFIG == [name |-> "New Game", randomTurnOrder |-> FALSE]

\* Partial<GameSessionConfig>: "undefined" stands for a key the caller left out
PartialConfigs ==
    [name : {"undefined", "Friday"}, randomTurnOrder : {"undefined", "true", "false"}]

\* the object spread  { ...base, ...partial }
mergeConfig(base, partial) ==
    [name |-> IF partial.name # "undefined" THEN partial.name ELSE base.name,
     randomTurnOrder |-> IF partial.randomTurnOrder # "undefined"
                         THEN partial.randomTurnOrder = "true"
                         ELSE base.randomTurnOrder]

\* getGameSessionById(id): the rows selected with limit 1; {} is null
getGameSessionById(id) == {sessions[i] : i \in DOMAIN sessions \cap {id}}

\* the table after createGameSession(data) with data.config = partial
createGameSession(partial) ==
    Append(sessions,
           [id |-> Len(sessions) + 1,
            config |-> mergeConfig(DEFAULT_GAME_CONFIG, partial),
            completedAt |-> Null])

\* the table after updateGameSession(id, data): data.completedAt is Undefined,
\* Null or a date; data.config is present iff hasConfig
updateGameSession(id, completedAt, hasConfig, partial) ==
    [i \in DOMAIN sessions |->
        IF i # id THEN sessions[i]
        ELSE [id |-> sessions[i].id,
              config |-> IF hasConfig
                         THEN mergeConfig(sessions[i].config, partial)
                         ELSE sessions[i].config,
              completedAt |-> IF completedAt # Undefined
                              THEN completedAt
                              ELSE sessions[i].completedAt]]

\* the table after completeGameSession(id); now is what new Date() returns
completeGameSession(id, now) ==
    [i \in DOMAIN sessions |->
        IF i # id THEN sessions[i]
        ELSE [id |-> sessions[i].id,
              config |-> sessions[i].config,
              completedAt |-> now]]

-----------------------------------------------------------------------------
(* db/queries/rounds: the rounds of one session *)

RoundIdsOfSession(gameSessionId) ==
    {i \in DOMAIN rounds : rounds[i].gameSessionId = gameSessionId}

\* getRoundsBySession(gameSessionId): the arrays the query can return
getRoundsBySession(gameSessionId) ==
    {[k \in DOMAIN ids |-> rounds[ids[k]]] :
        ids \in OrderedBy(RoundIdsOfSession(gameSessionId),
                         [i \in RoundIdsOfSession(gameSessionId) |-> rounds[i].roundNumber])}

\* getLatestRound(gameSessionId) of the queries: the rows that
\* orderBy(desc(roundNumber)).limit(1) can return; {} is null
getLatestRoundQuery(gameSessionId) ==
    {rounds[i] : i \in {j \in RoundIdsOfSession(gameSessionId) :
                           \A k \in RoundIdsOfSession(gameSessionId) :
                               rounds[k].roundNumber <= rounds[j].roundNumber}}

\* getMaxRoundNumber(gameSessionId):  latestRound?.roundNumber || 0
getMaxRoundNumberOfSession(gameSessionId) ==
    IF getLatestRoundQuery(gameSessionId) = {} THEN 0
    ELSE (CHOOSE r \in getLatestRoundQuery(gameSessionId) : TRUE).roundNumber

\* getGameParticipantsBySession(gameSessionId): the rows of the session by
\* joinedAt, which grows with the serial id
getGameParticipantsBySession(gameSessionId) ==
    SelectSeq(participants, LAMBDA p : p.gameSessionId = gameSessionId)

-----------------------------------------------------------------------------
(* mappers.ts and game-service.ts: reading a session *)

\* mapGame checking the rounds before completedAt
mapGameRoundsFirst(session, sessionParticipants, roundModels) ==
    [id |-> session.id, config |-> session.config, completedAt |-> session.completedAt,
     participants |-> sessionParticipants,
     rounds |-> roundModels,
     status |-> IF Len(roundModels) > 0 THEN "in_progress"
                ELSE IF session.completedAt # Null THEN "completed"
                ELSE "waiting",
     startedAt |-> IF Len(roundModels) > 0 THEN roundModels[1].startedAt ELSE Null]

\* mapGame(session, participants, rounds, turnsByRoundId, rollsByTurnId);
\* roundModels is rounds.map(mapRound) as the caller's maps determine it
mapGame(session, sessionParticipants, roundModels) ==
    [id |-> session.id, config |-> session.config, completedAt |-> session.completedAt,
     participants |-> sessionParticipants,
     rounds |-> roundModels,
     status |-> IF session.completedAt # Null THEN "completed"
                ELSE IF Len(roundModels) > 0 THEN "in_progress"
                ELSE "waiting",
     startedAt |-> IF Len(roundModels) > 0 THEN roundModels[1].startedAt ELSE Null]

\* rounds.map(mapRound): the arrays of round models the rows can be mapped
\* to, each round over what its turn and roll queries return
RECURSIVE MapRounds(_)
MapRounds(rs) ==
    IF rs = << >> THEN {<< >>}
    ELSE {<<m>> \o rest : m \in RoundModels(Head(rs).id), rest \in MapRounds(Tail(rs))}

\* the arrays of round models a read of the session can compute: the rounds
\* as getRoundsBySession returns them, mapped
RoundModelSeqs(gameSessionId) ==
    UNION {MapRounds(rs) : rs \in getRoundsBySession(gameSessionId)}

\* getCompleteGame(gameSessionId): the game models it can return; {} is null
getCompleteGame(gameSessionId) ==
    {mapGame(session, getGameParticipantsBySession(gameSessionId), ms) :
        session \in getGameSessionById(gameSessionId),
        ms \in RoundModelSeqs(gameSessionId)}

\* getLatestRound(gameSessionId) of the service: the round models it can
\* return; {} is null
getLatestRound(gameSessionId) ==
    UNION {RoundModels(r.id) : r \in getLatestRoundQuery(gameSessionId)}

\* getCurrentRound(gameSessionId): what it can report, "null" or "value"
getCurrentRound(gameSessionId) ==
    UNION {IF Len(rs) = 0 THEN {"null"}
           ELSE {IF m.status = "in_progress" THEN "value" ELSE "null" :
                    m \in RoundModels(rs[Len(rs)].id)} :
           rs \in getRoundsBySession(gameSessionId)}

\* getNextParticipantToPlay(roundId): the participant ids it can return,
\* Null for null
getNextParticipantToPlay(roundId) ==
    IF roundId \notin DOMAIN rounds THEN {Null}
    ELSE {IF Len(m.turns) = 0 THEN m.playerOrder[1]
          ELSE IF Len(m.turns) >= Len(m.playerOrder) THEN Null
          ELSE m.playerOrder[Len(m.turns) + 1] : m \in RoundModels(roundId)}

-----------------------------------------------------------------------------
(* SpecSession: the session rows, the rounds of the sessions and the *)
(* service calls addressed to them, some to ids that do not exist     *)

\* ids the callers address: the rows that can exist and one that never does
SessionIds == 1..(MaxSessions + 1)
RoundIds == 1..(MaxSessionRounds + 1)

\* options.shuffleOrder as the caller passes it
ShuffleOptions == {"undefined", "true", "false"}

\* createRound's shuffleOrder with || in place of ??
resolveShuffleOrderOr(option, randomTurnOrder) ==
    IF option = "true" THEN TRUE ELSE randomTurnOrder

\* createRound:  options.shuffleOrder ?? session.config.randomTurnOrder
resolveShuffleOrder(option, randomTurnOrder) ==
    IF option # "undefined" THEN option = "true" ELSE randomTurnOrder

Call(op, id, result) ==
    [op |-> op, id |-> id, result |-> result, option |-> "undefined",
     shuffleOrder |-> FALSE]

InitSession ==
    /\ sessions = << >>
    /\ participants = << >>
    /\ lastCall = NoCall
    /\ rounds = << >>
    /\ playerTurns = << >>
    /\ rolls = << >>
    /\ clock = 1
    /\ DiceIdle
    /\ OrderIdle
    /\ OtherIdle

CreateGameSession(partial) ==
    /\ Len(sessions) < MaxSessions
    /\ sessions' = createGameSession(partial)
    /\ lastCall' = [Call("createGameSession", Len(sessions) + 1, "value")
                       EXCEPT !.option = partial.randomTurnOrder]
    /\ UNCHANGED participants
    /\ UNCHANGED storeVars
    /\ UNCHANGED diceVars
    /\ UNCHANGED otherVars
    /\ UNCHANGED orderVars

\* updateGameSession(id, data) with one field or more in data
UpdateGameSession(id, completedAt, hasConfig, partial) ==
    /\ completedAt # Undefined \/ hasConfig
    /\ sessions' = updateGameSession(id, completedAt, hasConfig, partial)
    /\ lastCall' = Call("updateGameSession", id,
                        IF getGameSessionById(id) = {} THEN "null" ELSE "value")
    /\ UNCHANGED participants
    /\ UNCHANGED storeVars
    /\ UNCHANGED diceVars
    /\ UNCHANGED otherVars
    /\ UNCHANGED orderVars

\* updateGameSessionConfig(id, config) is updateGameSession(id, { config })
UpdateGameSessionConfig(id, partial) ==
    /\ sessions' = updateGameSession(id, Undefined, TRUE, partial)
    /\ lastCall' = Call("updateGameSessionConfig", id,
                        IF getGameSessionById(id) = {} THEN "null" ELSE "value")
    /\ UNCHANGED participants
    /\ UNCHANGED storeVars
    /\ UNCHANGED diceVars
    /\ UNCHANGED otherVars
    /\ UNCHANGED orderVars

CompleteGameSession(id) ==
    /\ clock < MaxClock
    /\ sessions' = completeGameSession(id, clock)
    /\ clock' = clock + 1
    /\ lastCall' = Call("completeGameSession", id,
                        IF getGameSessionById(id) = {} THEN "null" ELSE "value")
    /\ UNCHANGED participants
    /\ UNCHANGED <<rounds, playerTurns, rolls>>
    /\ UNCHANGED diceVars
    /\ UNCHANGED otherVars
    /\ UNCHANGED orderVars

\* game-service createRound(gameSessionId, startingParticipantId,
\* allParticipantIds, options): throws when the session is missing
CreateRoundOfSession(gameSessionId, startingId, allIds, option) ==
    /\ IF getGameSessionById(gameSessionId) = {}
       THEN /\ lastCall' = [Call("createRound", gameSessionId, "error")
                               EXCEPT !.option = option]
            /\ UNCHANGED <<rounds, clock>>
       ELSE /\ Len(rounds) < MaxSessionRounds
            /\ \E session \in getGameSessionById(gameSessionId) :
               LET shuffle == resolveShuffleOrder(option, session.config.randomTurnOrder)
               IN  \E order \in createPlayerOrder(startingId, allIds, shuffle) :
                     /\ rounds' = Append(rounds,
                                         [id |-> Len(rounds) + 1,
                                          gameSessionId |-> gameSessionId,
                                          roundNumber |->
                                              getMaxRoundNumberOfSession(gameSessionId) + 1,
                                          playerOrder |-> order,
                                          startedAt |-> clock])
                     /\ clock' = clock + 1
                     /\ lastCall' = [op |-> "createRound", id |-> gameSessionId,
                                     result |-> "value", option |-> option,
                                     shuffleOrder |-> shuffle]
    /\ UNCHANGED <<sessions, participants, playerTurns, rolls>>
    /\ UNCHANGED diceVars
    /\ UNCHANGED otherVars
    /\ UNCHANGED orderVars

GetCompleteGame(gameSessionId) ==
    /\ lastCall' = Call("getCompleteGame", gameSessionId,
                        IF getCompleteGame(gameSessionId) = {} THEN "null" ELSE "value")
    /\ UNCHANGED <<sessions, participants>>
    /\ UNCHANGED storeVars
    /\ UNCHANGED diceVars
    /\ UNCHANGED otherVars
    /\ UNCHANGED orderVars

GetLatestRound(gameSessionId) ==
    /\ lastCall' = Call("getLatestRound", gameSessionId,
                        IF getLatestRound(gameSessionId) = {} THEN "null" ELSE "value")
    /\ UNCHANGED <<sessions, participants>>
    /\ UNCHANGED storeVars
    /\ UNCHANGED diceVars
    /\ UNCHANGED otherVars
    /\ UNCHANGED orderVars

GetCurrentRound(gameSessionId) ==
    /\ \E result \in getCurrentRound(gameSessionId) :
          lastCall' = Call("getCurrentRound", gameSessionId, result)
    /\ UNCHANGED <<sessions, participants>>
    /\ UNCHANGED storeVars
    /\ UNCHANGED diceVars
    /\ UNCHANGED otherVars
    /\ UNCHANGED orderVars

GetNextParticipantToPlay(roundId) ==
    /\ \E next \in getNextParticipantToPlay(roundId) :
          lastCall' = Call("getNextParticipantToPlay", roundId,
                           IF next = Null THEN "null" ELSE "value")
    /\ UNCHANGED <<sessions, participants>>
    /\ UNCHANGED storeVars
    /\ UNCHANGED diceVars
    /\ UNCHANGED otherVars
    /\ UNCHANGED orderVars

NextSession ==
    \/ \E partial \in PartialConfigs : CreateGameSession(partial)
    \/ \E id \in SessionIds, completedAt \in {Undefined, Null, clock},
          hasConfig \in BOOLEAN, partial \in PartialConfigs :
          UpdateGameSession(id, completedAt, hasConfig, partial)
    \/ \E id \in SessionIds, partial \in PartialConfigs :
          UpdateGameSessionConfig(id, partial)
    \/ \E id \in SessionIds : CompleteGameSession(id)
    \/ \E gameSessionId \in SessionIds, startingId \in Participants,
          allIds \in Arrangements(Participants), option \in ShuffleOptions :
          CreateRoundOfSession(gameSessionId, startingId, allIds, option)
    \/ \E gameSessionId \in SessionIds : GetCompleteGame(gameSessionId)
    \/ \E gameSessionId \in SessionIds : GetLatestRound(gameSessionId)
    \/ \E gameSessionId \in SessionIds : GetCurrentRound(gameSessionId)
    \/ \E roundId \in RoundIds : GetNextParticipantToPlay(roundId)

SpecSession == InitSession /\ [][NextSession]_vars

-----------------------------------------------------------------------------
(* Properties of the session *)

\* C11: session completion is terminal: once a session's completedAt has
\* been set, no later session operation (completeGameSession,
\* updateGameSession, updateGameSessionConfig) changes or clears it, so the
\* derived status stays completed.
C11_CompletionIsTerminal ==
    [][\A s \in DOMAIN sessions :
          sessions[s].completedAt # Null =>
              /\ sessions'[s].completedAt = sessions[s].completedAt
              /\ \A g \in getCompleteGame(s)' : g.status = "completed"
      ]_vars

\* C12: the derived game status is completed if the session's completedAt is
\* set, otherwise in_progress if the session has at least one round,
\* otherwise waiting; startedAt is the first round's startedAt, or null when
\* there are no rounds.
C12_GameStatusAndStartedAt ==
    \A s \in DOMAIN sessions :
        \A g \in getCompleteGame(s) :
            LET ids == RoundIdsOfSession(s)
            IN  /\ g.status = IF sessions[s].completedAt # Null THEN "completed"
                              ELSE IF ids # {} THEN "in_progress"
                              ELSE "waiting"
                /\ IF ids = {} THEN g.startedAt = Null
                   ELSE \E i \in ids :
                           /\ \A j \in ids : rounds[i].roundNumber <= rounds[j].roundNumber
                           /\ g.startedAt = rounds[i].startedAt

\* a completed session holding two rounds: completed wins over in_progress
\* and startedAt is that of round number 1
C12_Witness ==
    \E s \in DOMAIN sessions :
        \E g \in getCompleteGame(s) :
            /\ sessions[s].completedAt # Null
            /\ Len(g.rounds) = 2
            /\ g.status = "completed"
            /\ g.rounds[1].roundNumber = 1
            /\ g.startedAt = g.rounds[1].startedAt
            /\ g.startedAt # g.rounds[2].startedAt

-----------------------------------------------------------------------------
(* Properties of the stored rolls and of the derived round, continued *)

\* C13: after any sequence of roll-creation operations, every turn's rolls
\* are numbered contiguously 1..k with k at most 3: a roll whose rollNumber
\* is not the next one, or a fourth roll of the turn, is never stored.
C13_RollsNumberedContiguously ==
    \A t \in DOMAIN playerTurns :
        LET ids == RollIdsOfTurn(t)
            k == Cardinality(ids)
        IN  /\ k <= 3
            /\ {rolls[i].rollNumber : i \in ids} = 1..k

\* C14 as stated: maxRollsAllowed of a round equals the number of rolls
\* recorded in the round's first turn, and is 3 when the round has no turns
\* yet.
C14_MaxRollsIsFirstTurnRollCount ==
    \A m \in AllRoundModels :
        m.maxRollsAllowed = IF Len(m.turns) = 0 THEN 3 ELSE Len(m.turns[1].rolls)

\* C14 amended: maxRollsAllowed of a round equals the number of rolls
\* recorded in the round's first turn when that turn has one roll or more,
\* and is 3 when the round has no turns yet or its first turn has no rolls
\* yet.
C14_MaxRollsIsFirstTurnRollCountOrThree ==
    \A m \in AllRoundModels :
        m.maxRollsAllowed = IF Len(m.turns) = 0 THEN 3
                            ELSE IF Len(m.turns[1].rolls) = 0 THEN 3
                            ELSE Len(m.turns[1].rolls)

\* a round whose first turn has no rolls while its second turn has two
C14_Witness ==
    \E m \in AllRoundModels :
        /\ Len(m.turns) = 2
        /\ Len(m.turns[1].rolls) = 0
        /\ Len(m.turns[2].rolls) = 2
        /\ m.maxRollsAllowed = 3

\* C15: while a round is in_progress its finalPenaltySips,
\* losingParticipantId and completedAt are all null; when it is completed,
\* finalPenaltySips equals currentPenaltySips and completedAt equals the
\* completedAt of the last turn, which is the timestamp of that turn's last
\* roll.
C15_CompletionFieldsFollowStatus ==
    \A m \in AllRoundModels :
        /\ m.status = "in_progress" =>
              /\ m.finalPenaltySips = Null
              /\ m.losingParticipantId = Null
              /\ m.completedAt = Null
        /\ (m.status = "completed" /\ Len(m.turns) > 0) =>
              LET last == m.turns[Len(m.turns)]
              IN  /\ m.finalPenaltySips = m.currentPenaltySips
                  /\ m.completedAt = last.completedAt
                  /\ Len(last.rolls) > 0 =>
                        m.completedAt = last.rolls[Len(last.rolls)].rolledAt

\* a completed round of two turns with one roll each, the first a three of
\* a kind: the penalty is final and completedAt is the second roll's time
C15_Witness ==
    \E m \in AllRoundModels :
        /\ m.status = "completed"
        /\ Len(m.turns) = 2
        /\ m.turns[1].specialRollType = "three_of_a_kind"
        /\ Len(m.turns[2].rolls) = 1
        /\ m.finalPenaltySips = m.currentPenaltySips
        /\ m.finalPenaltySips > 1
        /\ m.completedAt = m.turns[2].rolls[1].rolledAt
        /\ m.completedAt # m.turns[1].completedAt

-----------------------------------------------------------------------------
(* game-service.ts: the statistics *)

\* getParticipantsByPlayerId(playerId): the player's rows by joinedAt, which
\* grows with the serial id
getParticipantsByPlayerId(playerId) ==
    SelectSeq(participants, LAMBDA p : p.playerId = playerId)

\* the turn roundModel.turns.find(t => t.participantId === participantId)
\* returns, as a set: {} is undefined
participantTurn(roundModel, participantId) ==
    LET found == {k \in DOMAIN roundModel.turns :
                     roundModel.turns[k].participantId = participantId}
    IN  {roundModel.turns[k] : k \in {j \in found : \A i \in found : j <= i}}

\* awardedSips with the same factor for stairs and super stairs
awardedSipsNoDouble(roundModel, participantId) ==
    LET found == participantTurn(roundModel, participantId)
        turn == CHOOSE t \in found : TRUE
    IN  IF found # {} /\ turn.specialRollType \in {"stairs", "super_stairs"}
        THEN turn.turnOrder * 1
        ELSE 0

\* what the loop body adds to sipsAwarded for one completed round
awardedSips(roundModel, participantId) ==
    LET found == participantTurn(roundModel, participantId)
        turn == CHOOSE t \in found : TRUE
    IN  IF found # {} /\ turn.specialRollType \in {"stairs", "super_stairs"}
        THEN turn.turnOrder * (IF turn.specialRollType = "super_stairs" THEN 2 ELSE 1)
        ELSE 0

\* statsStep counting a round as won whenever the participant did not lose it
statsStepWonUnlessLost(acc, roundModel, participantId) ==
    IF roundModel.status # "completed" THEN acc
    ELSE LET lost == roundModel.losingParticipantId = participantId
             won == ~lost
         IN  [participantId |-> acc.participantId,
              roundsWon |-> acc.roundsWon + (IF won THEN 1 ELSE 0),
              roundsLost |-> acc.roundsLost + (IF lost THEN 1 ELSE 0),
              sipsDrunk |-> acc.sipsDrunk +
                            (IF lost
                             THEN (IF roundModel.finalPenaltySips \in {Null, 0}
                                   THEN 0 ELSE roundModel.finalPenaltySips)
                             ELSE 0),
              sipsAwarded |-> acc.sipsAwarded + awardedSips(roundModel, participantId)]

\* the body of the for loop of getParticipantStats for one round model:
\* acc is the record of the counters
statsStep(acc, roundModel, participantId) ==
    IF roundModel.status # "completed" THEN acc
    ELSE LET lost == roundModel.losingParticipantId = participantId
             won == ~lost /\ roundModel.losingParticipantId # Null
         IN  [participantId |-> acc.participantId,
              roundsWon |-> acc.roundsWon + (IF won THEN 1 ELSE 0),
              roundsLost |-> acc.roundsLost + (IF lost THEN 1 ELSE 0),
              sipsDrunk |-> acc.sipsDrunk +
                            (IF lost
                             THEN (IF roundModel.finalPenaltySips \in {Null, 0}
                                   THEN 0 ELSE roundModel.finalPenaltySips)
                             ELSE 0),
              sipsAwarded |-> acc.sipsAwarded + awardedSips(roundModel, participantId)]

\* the for loop of getParticipantStats over the remaining round models
RECURSIVE statsLoop(_, _, _)
statsLoop(acc, roundModels, participantId) ==
    IF roundModels = << >> THEN acc
    ELSE statsLoop(statsStep(acc, Head(roundModels), participantId),
                   Tail(roundModels), participantId)

\* getParticipantStats(participantId, gameSessionId): the results it can return
getParticipantStats(participantId, gameSessionId) ==
    {statsLoop([participantId |-> participantId, roundsWon |-> 0, roundsLost |-> 0,
                sipsDrunk |-> 0, sipsAwarded |-> 0], ms, participantId) :
        ms \in RoundModelSeqs(gameSessionId)}

\* the minimum of a non-empty set of numbers
Min(S) == CHOOSE x \in S : \A y \in S : x <= y

\* the ids of the participants of a session
ParticipantIdsOfSession(gameSessionId) ==
    {participants[i].id : i \in {j \in DOMAIN participants :
                                    participants[j].gameSessionId = gameSessionId}}

\* the allStats arrays getPlayerGlobalStats can compute for a session, as
\* functions of the participant id
AllStatsOfSession(gameSessionId) ==
    LET ids == ParticipantIdsOfSession(gameSessionId)
    IN  {f \in [ids -> UNION {getParticipantStats(q, gameSessionId) : q \in ids}] :
            \A q \in ids : f[q] \in getParticipantStats(q, gameSessionId)}

\* globalStep without the test of game.status
globalStepAnyStatus(acc, participation) ==
    LET sid == participation.gameSessionId
    IN  IF getCompleteGame(sid) = {} THEN {acc}
        ELSE {[playerId |-> acc.playerId,
               gamesPlayed |-> acc.gamesPlayed + 1,
               gamesWon |-> acc.gamesWon +
                   (IF stats.sipsDrunk = Min({allStats[q].sipsDrunk : q \in DOMAIN allStats})
                    THEN 1 ELSE 0),
               totalSipsDrunk |-> acc.totalSipsDrunk + stats.sipsDrunk,
               totalSipsAwarded |-> acc.totalSipsAwarded + stats.sipsAwarded] :
                  stats \in getParticipantStats(participation.id, sid),
                  allStats \in AllStatsOfSession(sid)}

\* the body of the for loop of getPlayerGlobalStats for one participation:
\* the values the counters can have after it
globalStep(acc, participation) ==
    LET sid == participation.gameSessionId
    IN  IF getCompleteGame(sid) = {}
           \/ \A game \in getCompleteGame(sid) : game.status # "completed"
        THEN {acc}
        ELSE {[playerId |-> acc.playerId,
               gamesPlayed |-> acc.gamesPlayed + 1,
               gamesWon |-> acc.gamesWon +
                   (IF stats.sipsDrunk = Min({allStats[q].sipsDrunk : q \in DOMAIN allStats})
                    THEN 1 ELSE 0),
               totalSipsDrunk |-> acc.totalSipsDrunk + stats.sipsDrunk,
               totalSipsAwarded |-> acc.totalSipsAwarded + stats.sipsAwarded] :
                  stats \in getParticipantStats(participation.id, sid),
                  allStats \in AllStatsOfSession(sid)}

\* the for loop of getPlayerGlobalStats over the remaining participations
RECURSIVE globalLoop(_, _)
globalLoop(acc, participations) ==
    IF participations = << >> THEN {acc}
    ELSE UNION {globalLoop(a, Tail(participations)) :
                   a \in globalStep(acc, Head(participations))}

\* getPlayerGlobalStats(playerId): the results it can return
getPlayerGlobalStats(playerId) ==
    globalLoop([playerId |-> playerId, gamesPlayed |-> 0, gamesWon |-> 0,
                totalSipsDrunk |-> 0, totalSipsAwarded |-> 0],
               getParticipantsByPlayerId(playerId))

-----------------------------------------------------------------------------
(* SpecStats and SpecGlobal: sessions played turn by turn *)

\* the dice arrays offered to the rolls of SpecStats: stairs, super stairs,
\* an unsafe array and a three of a kind
StatsDice == {<<1, 2, 3>>, <<4, 5, 6>>, <<2, 2, 5>>, <<1, 1, 1>>}

\* the dice arrays offered to the rolls of SpecGlobal
GlobalDice == {<<2, 2, 5>>, <<1, 1, 1>>}

\* a session as createGameSession({}) leaves it
NewSession(id) == [id |-> id, config |-> DEFAULT_GAME_CONFIG, completedAt |-> Null]

\* SpecStats starts from one session joined by players 1..NumParticipants
InitStats ==
    /\ sessions = <<NewSession(1)>>
    /\ participants = [i \in Participants |->
                          [id |-> i, gameSessionId |-> 1, playerId |-> i]]
    /\ lastCall = NoCall
    /\ rounds = << >>
    /\ playerTurns = << >>
    /\ rolls = << >>
    /\ clock = 1
    /\ DiceIdle
    /\ OrderIdle
    /\ OtherIdle

\* SpecGlobal starts from two sessions, each joined by players
\* 1..NumParticipants: player i is participant i of session 1 and
\* participant NumParticipants + i of session 2
InitGlobal ==
    /\ sessions = <<NewSession(1), NewSession(2)>>
    /\ participants = [k \in 1..(2 * NumParticipants) |->
                          IF k <= NumParticipants
                          THEN [id |-> k, gameSessionId |-> 1, playerId |-> k]
                          ELSE [id |-> k, gameSessionId |-> 2,
                                playerId |-> k - NumParticipants]]
    /\ lastCall = NoCall
    /\ rounds = << >>
    /\ playerTurns = << >>
    /\ rolls = << >>
    /\ clock = 1
    /\ DiceIdle
    /\ OrderIdle
    /\ OtherIdle

\* game-service createPlayerTurn for the latest round, the caller passing
\* the next position as turnOrder
CreateNextPlayerTurn(roundId, participantId) ==
    /\ roundId = Len(rounds)
    /\ roundId \in DOMAIN rounds
    /\ Cardinality(TurnIdsOfRound(roundId)) < MaxTurnsPerRound
    /\ playerTurns' = Append(playerTurns,
                             [id |-> Len(playerTurns) + 1,
                              roundId |-> roundId,
                              participantId |-> participantId,
                              turnOrder |-> Cardinality(TurnIdsOfRound(roundId)) + 1])
    /\ UNCHANGED <<rounds, rolls, clock>>
    /\ UNCHANGED sessionVars
    /\ UNCHANGED diceVars
    /\ UNCHANGED otherVars
    /\ UNCHANGED orderVars

\* createRoll for the latest turn, the caller passing rollNumber 1 for a
\* turn without rolls
CreateFirstRoll(playerTurnId, d) ==
    /\ playerTurnId = Len(playerTurns)
    /\ playerTurnId \in DOMAIN playerTurns
    /\ RollIdsOfTurn(playerTurnId) = {}
    /\ rolls' = Append(rolls,
                       [id |-> Len(rolls) + 1,
                        playerTurnId |-> playerTurnId,
                        rollNumber |-> 1,
                        dice |-> d,
                        rolledAt |-> clock])
    /\ clock' = clock + 1
    /\ UNCHANGED <<rounds, playerTurns>>
    /\ UNCHANGED sessionVars
    /\ UNCHANGED diceVars
    /\ UNCHANGED otherVars
    /\ UNCHANGED orderVars

NextStats ==
    \/ \E startingId \in Participants, allIds \in Arrangements(Participants) :
          CreateRoundOfSession(1, startingId, allIds, "undefined")
    \/ \E roundId \in 1..MaxSessionRounds, participantId \in Participants :
          CreateNextPlayerTurn(roundId, participantId)
    \/ \E playerTurnId \in 1..(MaxSessionRounds * MaxTurnsPerRound), d \in StatsDice :
          CreateFirstRoll(playerTurnId, d)

SpecStats == InitStats /\ [][NextStats]_vars

NextGlobal ==
    \/ \E id \in 1..2 : CompleteGameSession(id)
    \/ CreateRoundOfSession(1, 1, [i \in Participants |-> i], "undefined")
    \/ \E roundId \in 1..MaxSessionRounds, participantId \in Participants :
          CreateNextPlayerTurn(roundId, participantId)
    \/ \E playerTurnId \in 1..(MaxSessionRounds * MaxTurnsPerRound), d \in GlobalDice :
          CreateFirstRoll(playerTurnId, d)

SpecGlobal == InitGlobal /\ [][NextGlobal]_vars

-----------------------------------------------------------------------------
(* Properties of the statistics *)

\* positions of the completed rounds in an array of round models
CompletedRounds(ms) == {k \in DOMAIN ms : ms[k].status = "completed"}

\* positions of the completed rounds whose loser is participant p
LostRounds(ms, p) == {k \in CompletedRounds(ms) : ms[k].losingParticipantId = p}

\* positions of the completed rounds with a loser other than participant p
WonRounds(ms, p) ==
    {k \in CompletedRounds(ms) : ms[k].losingParticipantId \notin {Null, p}}

\* C16: per-participant session statistics fold over completed rounds only:
\* roundsLost counts the rounds whose loser is the participant, roundsWon
\* counts the rounds that have a defined loser other than the participant, a
\* round with no loser changes neither counter, and sipsDrunk is the sum of
\* finalPenaltySips over the rounds the participant lost.
C16_RoundCountersAndSipsDrunk ==
    \A s \in DOMAIN sessions, p \in Participants :
        \A st \in getParticipantStats(p, s) :
            \E ms \in RoundModelSeqs(s) :
                /\ st.roundsLost = Cardinality(LostRounds(ms, p))
                /\ st.roundsWon = Cardinality(WonRounds(ms, p))
                /\ st.roundsLost + st.roundsWon =
                      Cardinality({k \in CompletedRounds(ms) :
                                      ms[k].losingParticipantId # Null})
                /\ st.sipsDrunk =
                      SumSeq([k \in DOMAIN ms |->
                                 IF k \in LostRounds(ms, p)
                                 THEN ms[k].finalPenaltySips ELSE 0])

\* participant 1 lost one completed round at a penalty of 8 while the other
\* completed round has no loser, and a participant's third round in
\* progress would not count: one lost, none won, 8 sips
C16_Witness ==
    \E ms \in RoundModelSeqs(1) :
        /\ Cardinality(CompletedRounds(ms)) = 2
        /\ Cardinality(LostRounds(ms, 1)) = 1
        /\ \E k \in CompletedRounds(ms) : ms[k].losingParticipantId = Null
        /\ \E st \in getParticipantStats(1, 1) :
              /\ st.roundsLost = 1
              /\ st.roundsWon = 0
              /\ st.sipsDrunk = 8
        /\ \E st \in getParticipantStats(2, 1) :
              /\ st.roundsLost = 0
              /\ st.roundsWon = 1
              /\ st.sipsDrunk = 0

\* what a completed round awards to participant p as the rules state it:
\* by the category and position of the participant's turn
Award(m, p) ==
    LET ks == {k \in DOMAIN m.turns : m.turns[k].participantId = p}
    IN  IF ks = {} THEN 0
        ELSE LET t == m.turns[Min(ks)]
             IN  CASE t.specialRollType = "stairs" -> t.turnOrder
                   [] t.specialRollType = "super_stairs" -> t.turnOrder + t.turnOrder
                   [] OTHER -> 0

\* C17: sipsAwarded for a participant is the sum, over completed rounds, of
\* turnOrder x 1 for the participant's turn if its category is stairs and
\* turnOrder x 2 if its category is super_stairs (so a super-stairs in
\* second position awards 4), and 0 for any other category.
C17_SipsAwardedByCategoryAndPosition ==
    \A s \in DOMAIN sessions, p \in Participants :
        \A st \in getParticipantStats(p, s) :
            \E ms \in RoundModelSeqs(s) :
                /\ st.sipsAwarded =
                      SumSeq([k \in DOMAIN ms |->
                                 IF k \in CompletedRounds(ms) THEN Award(ms[k], p) ELSE 0])
                /\ \A k \in CompletedRounds(ms) :
                      \A j \in DOMAIN ms[k].turns :
                          (/\ ms[k].turns[j].participantId = p
                           /\ \A i \in 1..(j - 1) : ms[k].turns[i].participantId # p
                           /\ ms[k].turns[j].specialRollType = "super_stairs"
                           /\ ms[k].turns[j].turnOrder = 2) => Award(ms[k], p) = 4

\* participant 2 played super stairs in second position in one completed
\* round and stairs in first position in the other: 4 + 1 sips awarded
C17_Witness ==
    \E ms \in RoundModelSeqs(1) :
        /\ Cardinality(CompletedRounds(ms)) = 2
        /\ \E k, j \in CompletedRounds(ms) :
              /\ ms[k].turns[2].participantId = 2
              /\ ms[k].turns[2].specialRollType = "super_stairs"
              /\ ms[k].turns[1].participantId = 1
              /\ ms[j].turns[1].participantId = 2
              /\ ms[j].turns[1].specialRollType = "stairs"
              /\ ms[j].turns[2].participantId = 1
        /\ \E st \in getParticipantStats(2, 1) : st.sipsAwarded = 5

\* the participations of player pl in sessions whose completedAt is set
CompletedParticipations(pl) ==
    {i \in DOMAIN participants :
        /\ participants[i].playerId = pl
        /\ sessions[participants[i].gameSessionId].completedAt # Null}

\* sipsDrunk of participant q in session s
SipsDrunkOf(q, s) == (CHOOSE st \in getParticipantStats(q, s) : TRUE).sipsDrunk

\* the participations of a set whose sipsDrunk is the minimum of their session
WinningParticipations(P) ==
    {i \in P :
        \A q \in ParticipantIdsOfSession(participants[i].gameSessionId) :
            SipsDrunkOf(i, participants[i].gameSessionId)
                <= SipsDrunkOf(q, participants[i].gameSessionId)}

\* C18: global player statistics count only participations in completed
\* sessions, and a session counts as won for the player exactly when the
\* player's sipsDrunk in that session equals the minimum sipsDrunk over all
\* participants of that session, so every participant tied for the minimum
\* is a winner.
C18_GlobalStatsOverCompletedSessions ==
    /\ \A i \in DOMAIN participants :
          Cardinality(getParticipantStats(i, participants[i].gameSessionId)) = 1
    /\ \A pl \in Participants :
          \A g \in getPlayerGlobalStats(pl) :
              LET P == CompletedParticipations(pl)
                  ps == getParticipantsByPlayerId(pl)
              IN  /\ g.gamesPlayed = Cardinality(P)
                  /\ g.gamesWon = Cardinality(WinningParticipations(P))
                  /\ g.totalSipsDrunk =
                        SumSeq([k \in DOMAIN ps |->
                                   IF ps[k].id \in P
                                   THEN SipsDrunkOf(ps[k].id, ps[k].gameSessionId)
                                   ELSE 0])

\* both sessions completed; participant 1 lost a round of session 1 and
\* nobody drank in session 2: player 1 won only the tied session 2, player
\* 2 won both
C18_Witness ==
    /\ \A s \in DOMAIN sessions : sessions[s].completedAt # Null
    /\ SipsDrunkOf(1, 1) > 0
    /\ SipsDrunkOf(2, 1) = 0
    /\ \E g \in getPlayerGlobalStats(1) :
          /\ g.gamesPlayed = 2
          /\ g.gamesWon = 1
          /\ g.totalSipsDrunk = SipsDrunkOf(1, 1)
    /\ \E g \in getPlayerGlobalStats(2) :
          /\ g.gamesPlayed = 2
          /\ g.gamesWon = 2

-----------------------------------------------------------------------------
(* Properties of the service calls of SpecSession *)

\* C19: when a round is created, the player order is shuffled according to
\* the explicit per-call shuffleOrder option whenever one is supplied
\* (including an explicit false against a session configured true),
\* otherwise according to the session's randomTurnOrder config, which is
\* false for a session created without specifying it.
C19_ShuffleOptionOverridesConfig ==
    /\ (lastCall.op = "createRound" /\ lastCall.result = "value") =>
          LET config == sessions[lastCall.id].config
              created == rounds[Len(rounds)]
          IN  /\ lastCall.option = "true" => lastCall.shuffleOrder
              /\ lastCall.option = "false" => ~lastCall.shuffleOrder
              /\ lastCall.option = "undefined" =>
                    lastCall.shuffleOrder = config.randomTurnOrder
              /\ ~lastCall.shuffleOrder =>
                    \E startingId \in Participants, allIds \in Arrangements(Participants) :
                        created.playerOrder =
                            <<startingId>> \o SelectSeq(allIds, LAMBDA id : id # startingId)
    /\ (lastCall.op = "createGameSession" /\ lastCall.option = "undefined") =>
          ~sessions[lastCall.id].config.randomTurnOrder

\* a round created with an explicit false in a session configured true
C19_Witness ==
    /\ lastCall.op = "createRound"
    /\ lastCall.result = "value"
    /\ lastCall.option = "false"
    /\ sessions[lastCall.id].config.randomTurnOrder
    /\ ~lastCall.shuffleOrder
    /\ Len(rounds) = 2

\* the target of the call recorded in c does not exist in the current state
TargetMissing(c) ==
    \/ /\ c.op \in {"getCompleteGame", "getLatestRound", "getCurrentRound", "createRound"}
       /\ getGameSessionById(c.id) = {}
    \/ /\ c.op = "getNextParticipantToPlay"
       /\ c.id \notin DOMAIN rounds

\* C20: an operation addressed to a session or round that does not exist
\* reports an absent result (null) to its caller rather than raising, and
\* leaves the stored rows unchanged; this holds for getCompleteGame,
\* getLatestRound, getCurrentRound, getNextParticipantToPlay and createRound.
C20_MissingTargetReportsNull ==
    [][TargetMissing(lastCall') =>
          /\ lastCall'.result = "null"
          /\ UNCHANGED <<sessions, participants, rounds, playerTurns, rolls>>
      ]_vars

-----------------------------------------------------------------------------
(* Properties of the reducers and of the write path, continued *)

\* C21: the reducers are deterministic functions of their explicit inputs:
\* two invocations of mapPlayerTurn (and so of mapRound and mapGame) on equal
\* inputs, including a turn with zero rolls, return equal outputs in every
\* field, including completedAt.  Stated over a step of the store: a turn
\* row mapped over the same rolls before and after the step gives the same
\* turn model.
C21_ReducersDeterministic ==
    [][\A t \in DOMAIN playerTurns :
          \A turnRolls \in getRollsByPlayerTurn(t) :
              turnRolls \in getRollsByPlayerTurn(t)' =>
                  mapPlayerTurn(playerTurns[t], turnRolls, clock')
                      = mapPlayerTurn(playerTurns[t], turnRolls, clock)
      ]_vars

\* C22: in every reachable state of a round, each recorded turn's turnOrder
\* equals the 1-based index of its participant within the round's
\* playerOrder, and each participant of the round has at most one turn in it.
C22_TurnOrderIsPlayerOrderIndex ==
    \A t \in DOMAIN playerTurns :
        LET order == rounds[playerTurns[t].roundId].playerOrder IN
        /\ playerTurns[t].turnOrder \in DOMAIN order
        /\ order[playerTurns[t].turnOrder] = playerTurns[t].participantId
        /\ \A u \in DOMAIN playerTurns :
              (/\ playerTurns[u].roundId = playerTurns[t].roundId
               /\ playerTurns[u].participantId = playerTurns[t].participantId)
                  => u = t

\* C24: getNextParticipantToPlay returns null exactly when the round's
\* derived status is completed; otherwise it returns playerOrder[k] (0-based)
\* where k is the number of turns already recorded.
C24_NextParticipantNullIffCompleted ==
    \A roundId \in DOMAIN rounds :
        \A next \in getNextParticipantToPlay(roundId) :
            \A m \in RoundModels(roundId) :
                /\ (next = Null) <=> (m.status = "completed")
                /\ next # Null => next = m.playerOrder[Len(m.turns) + 1]

\* what a read of the round reports about its completion
CompletionOutcomes(roundId) ==
    {<<m.status, m.losingParticipantId, m.finalPenaltySips>> : m \in RoundModels(roundId)}

\* C30: round completion is stable: once a round's derived status is
\* completed, it remains completed, with the same losingParticipantId and
\* finalPenaltySips, after any further turn- or roll-creation operation.
C30_CompletionIsStable ==
    [][\A roundId \in DOMAIN rounds :
          (\A m \in RoundModels(roundId) : m.status = "completed")
              => CompletionOutcomes(roundId)' = CompletionOutcomes(roundId)
      ]_vars

-----------------------------------------------------------------------------
(* game-utils.ts, game-service.ts: super stairs *)

\* isSuperStairsValid that does not look at the previous turn
isSuperStairsValidAlone(currentDice, previousTurnWasStairs) ==
    LET values == SortAsc(currentDice)
    IN  values[1] = 4 /\ values[2] = 5 /\ values[3] = 6

\* isSuperStairsValid(currentDice, previousTurnWasStairs)
isSuperStairsValid(currentDice, previousTurnWasStairs) ==
    LET values == SortAsc(currentDice)
        isStairs456 == values[1] = 4 /\ values[2] = 5 /\ values[3] = 6
    IN  isStairs456 /\ previousTurnWasStairs

\* turns.find(predicate) over the positions of an array: the first position
\* whose turnOrder is the one sought, 0 if there is none
findTurnOrder(turns, turnOrder) ==
    LET hits == {k \in DOMAIN turns : turns[k].turnOrder = turnOrder}
    IN  IF hits = {} THEN 0 ELSE CHOOSE k \in hits : \A j \in hits : k <= j

\* wasPreviousTurnStairs(roundId, currentTurnOrder): the values it can return
wasPreviousTurnStairs(roundId, currentTurnOrder) ==
    IF currentTurnOrder <= 1 THEN {FALSE}
    ELSE UNION {LET k == findTurnOrder(turns, currentTurnOrder - 1)
                IN  IF k = 0 THEN {FALSE}
                    ELSE {mapPlayerTurn(turns[k], turnRolls, clock).specialRollType = "stairs" :
                             turnRolls \in getRollsByPlayerTurn(turns[k].id)} :
                turns \in getPlayerTurnsByRound(roundId)}

\* validateSuperStairs(roundId, currentTurnOrder, dice): the values it can return
validateSuperStairs(roundId, currentTurnOrder, d) ==
    {isSuperStairsValid(d, previousWasStairs) :
        previousWasStairs \in wasPreviousTurnStairs(roundId, currentTurnOrder)}

\* the turn orders and round ids offered to validateSuperStairs
TurnOrderArgs == 0..(MaxTurnOrder + 1)
RoundIdArgs == 1..(MaxRounds + 1)

\* the dice, in any order, are {4,5,6}
IsFourFiveSix(d) == {d[1], d[2], d[3]} = {4, 5, 6}

\* the categories a read can give the turns of the round whose turnOrder is
\* turnOrder: the category of the roll with the highest rollNumber, none for
\* a turn without rolls
CategoriesAt(roundId, turnOrder) ==
    UNION {IF RollIdsOfTurn(t) = {} THEN {"none"}
           ELSE {detectSpecialRoll(rolls[i].dice) :
                    i \in {i \in RollIdsOfTurn(t) :
                              \A j \in RollIdsOfTurn(t) :
                                  rolls[j].rollNumber <= rolls[i].rollNumber}} :
           t \in {t \in TurnIdsOfRound(roundId) : playerTurns[t].turnOrder = turnOrder}}

\* C25: validateSuperStairs(round, turnOrder, dice) returns true iff the dice,
\* in any order, are {4,5,6} and the turn whose turnOrder is exactly one less
\* in the same round exists and has category stairs; it returns false for
\* turnOrder <= 1 and when the previous turn's category is anything else
\* (including super_stairs).
C25_SuperStairsNeedsPreviousStairs ==
    \A roundId \in RoundIdArgs, turnOrder \in TurnOrderArgs :
        LET previous == CategoriesAt(roundId, turnOrder - 1) IN
        \A d \in DiceSamples :
            LET results == validateSuperStairs(roundId, turnOrder, d) IN
            /\ results # {}
            /\ \A valid \in results :
                  /\ valid => (IsFourFiveSix(d) /\ "stairs" \in previous)
                  /\ ~valid => (\/ ~IsFourFiveSix(d)
                                \/ previous = {}
                                \/ previous # {"stairs"})
            /\ turnOrder <= 1 => results = {FALSE}
            /\ "stairs" \notin previous => results = {FALSE}

\* the turn of order 1 ended on stairs and 6,4,5 is accepted for the turn of
\* order 2, while 6,4,5 after a turn that ended on super stairs is not
C25_Witness ==
    /\ CategoriesAt(1, 1) = {"stairs"}
    /\ validateSuperStairs(1, 2, <<6, 4, 5>>) = {TRUE}
    /\ validateSuperStairs(1, 2, <<3, 1, 2>>) = {FALSE}

-----------------------------------------------------------------------------
(* SpecShuffle: shuffleArray applied to one array; allParticipantIds is the *)
(* caller's array, playerOrder the array returned                           *)

InitShuffle ==
    /\ startingParticipantId = 1
    /\ allParticipantIds \in IdLists
    /\ shuffleOrder = TRUE
    /\ playerOrder = << >>
    /\ orderCalled = FALSE
    /\ DiceIdle
    /\ StoreIdle
    /\ SessionIdle
    /\ OtherIdle

\* shuffleArray(array): the swaps are made on the copy [...array], the
\* caller's array is left as it was
ShuffleArrayCall ==
    /\ ~orderCalled
    /\ playerOrder' \in shuffleArray(allParticipantIds)
    /\ orderCalled' = TRUE
    /\ UNCHANGED <<startingParticipantId, allParticipantIds, shuffleOrder>>
    /\ UNCHANGED diceVars
    /\ UNCHANGED otherVars
    /\ UNCHANGED storeVars
    /\ UNCHANGED sessionVars

NextShuffle == ShuffleArrayCall

SpecShuffle == InitShuffle /\ [][NextShuffle]_vars

\* C26: shuffleArray always returns a permutation of its input (same
\* elements with the same multiplicities, same length) without modifying the
\* input array, and every permutation of the input is a possible result of
\* the swap loop.
C26_ShuffleIsAnyPermutation ==
    [][orderCalled' =>
          /\ IsPermutationOf(playerOrder', allParticipantIds)
          /\ allParticipantIds' = allParticipantIds
          /\ \A p \in Reorderings(allParticipantIds) : p \in shuffleArray(allParticipantIds)
      ]_vars

\* an array of three distinct elements came back in another order
C26_Witness ==
    /\ orderCalled
    /\ Len(allParticipantIds) = 3
    /\ Cardinality(Range(allParticipantIds)) = 3
    /\ playerOrder = <<allParticipantIds[3], allParticipantIds[2], allParticipantIds[1]>>

-----------------------------------------------------------------------------
(* db/queries/players.ts: a round with its turns, participants and rolls *)

\* getFullRound(roundId): the FullRound values it can return, {} is null.
\* A roll row's gameSessionId is the session of its turn's round, so the
\* rolls grouped under a turn id and sorted by rollNumber are the rolls of
\* that turn; participant is the set of rows the map holds for the turn's
\* participantId.
getFullRound(roundId) ==
    IF roundId \notin DOMAIN rounds THEN {}
    ELSE LET round == rounds[roundId]
         IN  {[round |-> round,
               turns |-> [k \in DOMAIN q[1] |->
                             [turn |-> q[1][k],
                              participant |->
                                  {p \in Range(participants) :
                                      /\ p.gameSessionId = round.gameSessionId
                                      /\ p.id = q[1][k].participantId},
                              rolls |-> q[2][q[1][k].id]]]] :
                 q \in getPlayerTurnsByRound(roundId) \X RollsByTurnIdMaps(roundId)}

\* the rows that orderBy(roundNumber).limit(1) can return for the session
firstRoundByRoundNumber(gameSessionId) ==
    {rounds[i] : i \in {j \in RoundIdsOfSession(gameSessionId) :
                           \A k \in RoundIdsOfSession(gameSessionId) :
                               rounds[j].roundNumber <= rounds[k].roundNumber}}

\* getLatestFullRound(gameSessionId): the FullRound values it can return,
\* {} is null
getLatestFullRound(gameSessionId) ==
    UNION {getFullRound(latestRound.id) : latestRound \in firstRoundByRoundNumber(gameSessionId)}

\* C27: for every session with at least one round, getLatestFullRound
\* returns the most recent round, i.e. the round with the highest
\* roundNumber, the same round that getLatestRound returns.
C27_LatestFullRoundIsLatestRound ==
    \A gameSessionId \in SessionIds :
        RoundIdsOfSession(gameSessionId) # {} =>
            /\ getLatestFullRound(gameSessionId) # {}
            /\ \A full \in getLatestFullRound(gameSessionId) :
                  /\ \A i \in RoundIdsOfSession(gameSessionId) :
                        rounds[i].roundNumber <= full.round.roundNumber
                  /\ full.round \in getLatestRoundQuery(gameSessionId)
                  /\ \E m \in getLatestRound(gameSessionId) : m.id = full.round.id

-----------------------------------------------------------------------------
(* SpecRolls: one session whose turns are created in sequence and take any *)
(* number of rolls, each numbered after the turn's last one                *)

RollsDice == {<<2, 2, 5>>}

\* createRoll for any recorded turn, the caller passing the next rollNumber
CreateNextRoll(playerTurnId, d) ==
    /\ Len(rolls) < MaxRollRows
    /\ playerTurnId \in DOMAIN playerTurns
    /\ rolls' = Append(rolls,
                       [id |-> Len(rolls) + 1,
                        playerTurnId |-> playerTurnId,
                        rollNumber |-> Cardinality(RollIdsOfTurn(playerTurnId)) + 1,
                        dice |-> d,
                        rolledAt |-> clock])
    /\ clock' = clock + 1
    /\ UNCHANGED <<rounds, playerTurns>>
    /\ UNCHANGED sessionVars
    /\ UNCHANGED diceVars
    /\ UNCHANGED otherVars
    /\ UNCHANGED orderVars

NextRolls ==
    \/ \E startingId \in Participants :
          CreateRoundOfSession(1, startingId, [i \in Participants |-> i], "undefined")
    \/ \E roundId \in 1..MaxSessionRounds, participantId \in Participants :
          CreateNextPlayerTurn(roundId, participantId)
    \/ \E playerTurnId \in 1..(MaxSessionRounds * MaxTurnsPerRound), d \in RollsDice :
          CreateNextRoll(playerTurnId, d)

SpecRolls == InitStats /\ [][NextRolls]_vars

\* C23: the starting player's roll count is a ceiling for the whole round:
\* in every reachable state, no turn of a round has more rolls than the
\* round's first (starting player's) completed turn, and never more than 3.
\* The first turn counts as completed once it has rolled and a later turn of
\* the round exists.
C23_FirstTurnRollCountIsCeiling ==
    \A m \in AllRoundModels :
        \A k \in DOMAIN m.turns :
            /\ m.turns[k].totalRollsUsed <= 3
            /\ (k > 1 /\ m.turns[1].totalRollsUsed > 0)
                  => m.turns[k].totalRollsUsed <= m.turns[1].totalRollsUsed

-----------------------------------------------------------------------------
(* SpecPlayers: the registered players and the participants, registered or *)
(* guest, of one session                                                   *)

\* the user ids offered to createPlayer and the guest names offered to
\* createGuestParticipant
UserIds == 1..MaxPlayers
GuestNames == {"guest"}

\* the rows of playersTable; a deleted row stays in the sequence, marked, so
\* that the serial id is not given out again
PlayerRows == {p \in Range(players) : ~p.deleted}

InitPlayers ==
    /\ sessions = <<NewSession(1)>>
    /\ participants = << >>
    /\ lastCall = NoCall
    /\ players = << >>
    /\ pending = [c \in Callers |-> NoPending]
    /\ StoreIdle
    /\ DiceIdle
    /\ OrderIdle

\* createPlayer(data): the insert fails on a userId already taken (unique)
CreatePlayer(userId) ==
    /\ Len(players) < MaxPlayers
    /\ \A p \in PlayerRows : p.userId # userId
    /\ players' = Append(players,
                         [id |-> Len(players) + 1, userId |-> userId, deleted |-> FALSE])
    /\ UNCHANGED pending
    /\ UNCHANGED sessionVars
    /\ UNCHANGED storeVars
    /\ UNCHANGED diceVars
    /\ UNCHANGED orderVars

\* deletePlayer(id): the delete fails while a participant row references
\* the player (foreign key without cascade)
DeletePlayer(id) ==
    /\ \E p \in PlayerRows : p.id = id
    /\ \A k \in DOMAIN participants : participants[k].playerId # id
    /\ players' = [players EXCEPT ![id].deleted = TRUE]
    /\ UNCHANGED pending
    /\ UNCHANGED sessionVars
    /\ UNCHANGED storeVars
    /\ UNCHANGED diceVars
    /\ UNCHANGED orderVars

\* createGameParticipant(data): the insert needs the session and, for a
\* registered participant, the player to exist (foreign keys) and the pair
\* (gameSessionId, playerId) to be new (unique; null player ids never clash)
createGameParticipant(data) ==
    Append(participants,
           [id |-> Len(participants) + 1, gameSessionId |-> data.gameSessionId,
            playerId |-> data.playerId, playerType |-> data.playerType,
            guestName |-> data.guestName])

CreateRegisteredParticipant(gameSessionId, playerId) ==
    /\ Len(participants) < MaxParticipantRows
    /\ gameSessionId \in DOMAIN sessions
    /\ \E p \in PlayerRows : p.id = playerId
    /\ \A k \in DOMAIN participants :
          ~(/\ participants[k].gameSessionId = gameSessionId
            /\ participants[k].playerId = playerId)
    /\ participants' = createGameParticipant([gameSessionId |-> gameSessionId,
                                              playerId |-> playerId,
                                              playerType |-> "registered",
                                              guestName |-> "null"])
    /\ UNCHANGED <<sessions, lastCall>>
    /\ UNCHANGED otherVars
    /\ UNCHANGED storeVars
    /\ UNCHANGED diceVars
    /\ UNCHANGED orderVars

CreateGuestParticipant(gameSessionId, guestName) ==
    /\ Len(participants) < MaxParticipantRows
    /\ gameSessionId \in DOMAIN sessions
    /\ participants' = createGameParticipant([gameSessionId |-> gameSessionId,
                                              playerId |-> Null,
                                              playerType |-> "guest",
                                              guestName |-> guestName])
    /\ UNCHANGED <<sessions, lastCall>>
    /\ UNCHANGED otherVars
    /\ UNCHANGED storeVars
    /\ UNCHANGED diceVars
    /\ UNCHANGED orderVars

NextPlayers ==
    \/ \E userId \in UserIds : CreatePlayer(userId)
    \/ \E id \in 1..MaxPlayers : DeletePlayer(id)
    \/ \E gameSessionId \in SessionIds, playerId \in 1..MaxPlayers :
          CreateRegisteredParticipant(gameSessionId, playerId)
    \/ \E gameSessionId \in SessionIds, guestName \in GuestNames :
          CreateGuestParticipant(gameSessionId, guestName)

SpecPlayers == InitPlayers /\ [][NextPlayers]_vars

\* getParticipantsWithPlayers(gameSessionId): the array it returns; player is
\* the set of rows found for the participant, {} for null.  The players are
\* selected with  eq(playersTable.id, playerIds[0]).
getParticipantsWithPlayers(gameSessionId) ==
    LET sessionParticipants == getGameParticipantsBySession(gameSessionId)
        playerIds == FilterNe([k \in DOMAIN sessionParticipants |->
                                  sessionParticipants[k].playerId], Null)
    IN  IF Len(playerIds) = 0
        THEN [k \in DOMAIN sessionParticipants |->
                 [participant |-> sessionParticipants[k], player |-> {}]]
        ELSE LET selected == {p \in PlayerRows : p.id = playerIds[1]}
             IN  [k \in DOMAIN sessionParticipants |->
                     [participant |-> sessionParticipants[k],
                      player |-> IF sessionParticipants[k].playerId # Null
                                 THEN {p \in selected :
                                          p.id = sessionParticipants[k].playerId}
                                 ELSE {}]]

\* C28: getParticipantsWithPlayers returns every participant of the session
\* paired with its player details: for each registered participant the
\* player field is that participant's player record (never null while the
\* player exists), and for each guest it is null.
C28_ParticipantsPairedWithPlayers ==
    \A gameSessionId \in SessionIds :
        LET result == getParticipantsWithPlayers(gameSessionId) IN
        /\ {result[k].participant : k \in DOMAIN result}
              = {p \in Range(participants) : p.gameSessionId = gameSessionId}
        /\ Len(result) = Cardinality({p \in Range(participants) :
                                         p.gameSessionId = gameSessionId})
        /\ \A k \in DOMAIN result :
              IF result[k].participant.playerType = "registered"
              THEN /\ result[k].player
                         = {p \in PlayerRows : p.id = result[k].participant.playerId}
                   /\ result[k].player # {}
              ELSE result[k].player = {}

-----------------------------------------------------------------------------
(* SpecRace: createRound called by concurrent callers.  Each await of the  *)
(* function is a point where another caller's call can run: the read of    *)
(* the session, the read of the maximum round number, the insert.          *)

InitRace ==
    /\ sessions = <<NewSession(1)>>
    /\ participants = [i \in Participants |->
                          [id |-> i, gameSessionId |-> 1, playerId |-> i]]
    /\ lastCall = NoCall
    /\ players = << >>
    /\ pending = [c \in Callers |-> NoPending]
    /\ StoreIdle
    /\ DiceIdle
    /\ OrderIdle

\* calls started and not yet returned
InFlight == {c \in Callers : pending[c].pc # "idle"}

\* createRound up to its first await: getGameSessionById, the throw for a
\* missing session, the shuffle setting
CreateRoundBegin(c, gameSessionId, startingId, allIds, option) ==
    /\ pending[c].pc = "idle"
    /\ IF getGameSessionById(gameSessionId) = {}
       THEN /\ lastCall' = [Call("createRound", gameSessionId, "error")
                               EXCEPT !.option = option]
            /\ UNCHANGED pending
       ELSE /\ Len(rounds) + Cardinality(InFlight) < MaxRaceRounds
            /\ \E session \in getGameSessionById(gameSessionId) :
                  pending' = [pending EXCEPT ![c] =
                                 [pc |-> "getMaxRoundNumber",
                                  gameSessionId |-> gameSessionId,
                                  startingParticipantId |-> startingId,
                                  allParticipantIds |-> allIds,
                                  shuffleOrder |->
                                      resolveShuffleOrder(option,
                                                          session.config.randomTurnOrder),
                                  latestRoundNumber |-> 0]]
            /\ UNCHANGED lastCall
    /\ UNCHANGED <<sessions, participants, players>>
    /\ UNCHANGED storeVars
    /\ UNCHANGED diceVars
    /\ UNCHANGED orderVars

\* const latestRoundNumber = await getMaxRoundNumber(gameSessionId)
CreateRoundReadMax(c) ==
    /\ pending[c].pc = "getMaxRoundNumber"
    /\ pending' = [pending EXCEPT
                      ![c].latestRoundNumber =
                          getMaxRoundNumberOfSession(pending[c].gameSessionId),
                      ![c].pc = "insert"]
    /\ UNCHANGED <<sessions, participants, lastCall, players>>
    /\ UNCHANGED storeVars
    /\ UNCHANGED diceVars
    /\ UNCHANGED orderVars

\* createPlayerOrder and the insert of the row numbered latestRoundNumber + 1
CreateRoundInsert(c) ==
    /\ pending[c].pc = "insert"
    /\ \E order \in createPlayerOrder(pending[c].startingParticipantId,
                                      pending[c].allParticipantIds,
                                      pending[c].shuffleOrder) :
          rounds' = Append(rounds,
                           [id |-> Len(rounds) + 1,
                            gameSessionId |-> pending[c].gameSessionId,
                            roundNumber |-> pending[c].latestRoundNumber + 1,
                            playerOrder |-> order,
                            startedAt |-> clock])
    /\ clock' = clock + 1
    /\ pending' = [pending EXCEPT ![c] = NoPending]
    /\ lastCall' = [op |-> "createRound", id |-> pending[c].gameSessionId,
                    result |-> "value", option |-> "undefined",
                    shuffleOrder |-> pending[c].shuffleOrder]
    /\ UNCHANGED <<sessions, participants, players, playerTurns, rolls>>
    /\ UNCHANGED diceVars
    /\ UNCHANGED orderVars

NextRace ==
    \/ \E c \in Callers, gameSessionId \in SessionIds, startingId \in Participants :
          CreateRoundBegin(c, gameSessionId, startingId,
                           [i \in Participants |-> i], "undefined")
    \/ \E c \in Callers : CreateRoundReadMax(c)
    \/ \E c \in Callers : CreateRoundInsert(c)

SpecRace == InitRace /\ [][NextRace]_vars

\* C29: under any interleaving of createRound calls on the same session, the
\* session's rounds always have pairwise distinct round numbers forming the
\* contiguous range 1..n.
C29_RoundNumbersDistinctAndContiguous ==
    \A gameSessionId \in SessionIds :
        LET ids == RoundIdsOfSession(gameSessionId) IN
        /\ \A i, j \in ids : i # j => rounds[i].roundNumber # rounds[j].roundNumber
        /\ {rounds[i].roundNumber : i \in ids} = 1..Cardinality(ids)

====
